---- MODULE Spec2Model ----
(***************************************************************************)
(* Model of analysis_engine.ap.fetch_data.fetch_data: the provider fetch,  *)
(* the cache extract and the merge of the cached (extracted) records with  *)
(* the fetched records, for the calls branch and for the puts branch.      *)
(*                                                                         *)
(* A pandas DataFrame is a record [none, columns, rows]: every row is a    *)
(* function from the frame's columns to cells, a missing cell is NaN.      *)
(* A JSON record (a Python dict) is a function from its keys to cells.     *)
(* A Python string is a sequence of one-character strings, so that the     *)
(* composite key of the merge is really built by concatenation.            *)
(***************************************************************************)
EXTENDS Integers, Sequences, FiniteSets, TLC

\* ------------------------------------------------------------------ bounds
\* rows the provider and the cache hand over to one call, both together
MaxRows == 3

\* ------------------------------------------------------- program constants
FETCH_AP_CALLS == 20000
FETCH_AP_PUTS == 20001

SUCCESS == "SUCCESS"
ERR == "ERR"
EMPTY == "EMPTY"
NOT_SET == "NOT_SET"

AP_OPTION_COLUMNS ==
    << "ask", "ask_date", "asksize", "bid", "bid_date", "bidsize", "date",
       "exp_date", "last", "last_volume", "open_interest", "opt_type",
       "strike", "ticker", "trade_date", "created", "volume" >>

\* ------------------------------------------------------------------- cells
IntV(n) == [t |-> "int", n |-> n, s |-> <<>>]
StrV(s) == [t |-> "str", n |-> 0, s |-> s]
NoneV == [t |-> "none", n |-> 0, s |-> <<>>]
NaN == [t |-> "nan", n |-> 0, s |-> <<>>]
\* a float with one decimal: FloatV(1, "5") is 1.5, FloatV(1, "0") is 1.0
FloatV(n, d) == [t |-> "float", n |-> n, s |-> << d >>]

Range(f) == {f[i] : i \in DOMAIN f}

DigitChar(d) ==
    CASE d = 0 -> "0" [] d = 1 -> "1" [] d = 2 -> "2" [] d = 3 -> "3"
      [] d = 4 -> "4" [] d = 5 -> "5" [] d = 6 -> "6" [] d = 7 -> "7"
      [] d = 8 -> "8" [] d = 9 -> "9"

RECURSIVE IntStr(_)
IntStr(n) == IF n < 10 THEN << DigitChar(n) >>
             ELSE IntStr(n \div 10) \o << DigitChar(n % 10) >>

\* what an f-string makes of a value: str(None) is 'None'
Str(v) ==
    CASE v.t = "int" -> IntStr(v.n)
      [] v.t = "float" -> IntStr(v.n) \o << "." >> \o v.s
      [] v.t = "str" -> v.s
      [] v.t = "none" -> << "N", "o", "n", "e" >>
      [] v.t = "nan" -> << "n", "a", "n" >>

\* -------------------------------------------------------------- DataFrames
NoneDF == [none |-> TRUE, columns |-> {}, rows |-> <<>>]

\* json.loads(df.to_json(orient='records')): one dict per row with every
\* column of the frame as a key, NaN written as null and read back as None
ToJsonRecords(df) ==
    [i \in 1..Len(df.rows) |->
        [c \in df.columns |->
            IF df.rows[i][c] = NaN THEN NoneV ELSE df.rows[i][c]]]

\* pd.DataFrame(records): the columns are the union of the records' keys,
\* a key a record lacks (or holds None for) is NaN in its row
DataFrame(records) ==
    LET cols == UNION {DOMAIN records[i] : i \in 1..Len(records)}
    IN [none |-> FALSE,
        columns |-> cols,
        rows |-> [i \in 1..Len(records) |->
                    [c \in cols |->
                        IF c \in DOMAIN records[i] /\ records[i][c] # NoneV
                        THEN records[i][c] ELSE NaN]]]

\* the tenths of a number: those of an int are 0
Tenths(v) ==
    IF v.t # "float" THEN 0
    ELSE CHOOSE d \in 0..9 : DigitChar(d) = v.s[1]

\* ascending order of two cells of a sort column, NaN last
CellLT(a, b) ==
    IF a.t = "nan" THEN FALSE
    ELSE IF b.t = "nan" THEN TRUE
    ELSE a.n < b.n \/ (a.n = b.n /\ Tenths(a) < Tenths(b))

\* (a.date, a.strike) <= (b.date, b.strike)
RowLE(a, b) ==
    \/ CellLT(a["date"], b["date"])
    \/ /\ a["date"] = b["date"]
       /\ ~CellLT(b["strike"], a["strike"])

RECURSIVE InsertSorted(_, _)
InsertSorted(sorted, x) ==
    IF sorted = <<>> THEN << x >>
    ELSE IF RowLE(sorted[Len(sorted)], x) THEN Append(sorted, x)
    ELSE Append(InsertSorted(SubSeq(sorted, 1, Len(sorted) - 1), x),
                sorted[Len(sorted)])

RECURSIVE SortRows(_, _)
SortRows(rows, i) ==
    IF i = 0 THEN <<>>
    ELSE InsertSorted(SortRows(rows, i - 1), rows[i])

\* df.sort_values(by=['date', 'strike'], ascending=True) raises KeyError
\* when the frame lacks one of the two columns
SortRaises(df) == ~({"date", "strike"} \subseteq df.columns)

\* the new frame df.sort_values returns (the receiver is left as it was)
SortValues(df) ==
    [none |-> FALSE, columns |-> df.columns,
     rows |-> SortRows(df.rows, Len(df.rows))]

\* ----------------------------------------------------------- the merge
\* f'{row["created"]}_{row["strike"]}' raises KeyError when a key is absent
KeyRaises(row) == ~({"created", "strike"} \subseteq DOMAIN row)

date_strike_name(row) == Str(row["created"]) \o << "_" >> \o Str(row["strike"])

\* mutant: every column of the row is copied, not only the option columns
NewNodeCopiesAll(row) ==
    [c \in DOMAIN row \ {"index", "level_0"} |-> row[c]]

\* the columns of AP_OPTION_COLUMNS the row has, then pop index and level_0
NewNode(row) ==
    LET copied == {c \in Range(AP_OPTION_COLUMNS) : c \in DOMAIN row}
    IN [c \in copied \ {"index", "level_0"} |-> row[c]]

\* state of the two loops: the merged list, the keys seen, how the loop ended
MergeStart == [new_records |-> <<>>, dates_by_strike_dict |-> {}, out |-> "ok"]

\* mutant: the extracted rows are appended without looking at the keys seen
RECURSIVE CallsExtractedLoopNoDedup(_, _, _)
CallsExtractedLoopNoDedup(extracted_records, i, m) ==
    IF i > Len(extracted_records) \/ m.out # "ok" THEN m
    ELSE LET ex_row == extracted_records[i]
         IN IF KeyRaises(ex_row)
            THEN [m EXCEPT !.out = "KeyError"]
            ELSE CallsExtractedLoopNoDedup(extracted_records, i + 1,
                    [m EXCEPT
                        !.new_records = Append(@, NewNode(ex_row)),
                        !.dates_by_strike_dict =
                            @ \cup {date_strike_name(ex_row)}])

\* calls: for ex_row in extracted_records
RECURSIVE CallsExtractedLoop(_, _, _)
CallsExtractedLoop(extracted_records, i, m) ==
    IF i > Len(extracted_records) \/ m.out # "ok" THEN m
    ELSE LET ex_row == extracted_records[i]
         IN IF KeyRaises(ex_row)
            THEN [m EXCEPT !.out = "KeyError"]
            ELSE CallsExtractedLoop(extracted_records, i + 1,
                    IF date_strike_name(ex_row) \notin m.dates_by_strike_dict
                    THEN [m EXCEPT
                            !.new_records = Append(@, NewNode(ex_row)),
                            !.dates_by_strike_dict =
                                @ \cup {date_strike_name(ex_row)}]
                    ELSE m)

\* mutant: a fetched row with an unseen key is put in front of the others
RECURSIVE CallsFetchedLoopPrepends(_, _, _)
CallsFetchedLoopPrepends(fetched_records, i, m) ==
    IF i > Len(fetched_records) \/ m.out # "ok" THEN m
    ELSE LET ft_row == fetched_records[i]
         IN IF KeyRaises(ft_row)
            THEN [m EXCEPT !.out = "KeyError"]
            ELSE CallsFetchedLoopPrepends(fetched_records, i + 1,
                    IF date_strike_name(ft_row) \notin m.dates_by_strike_dict
                    THEN [m EXCEPT
                            !.new_records = << NewNode(ft_row) >> \o @,
                            !.dates_by_strike_dict =
                                @ \cup {date_strike_name(ft_row)}]
                    ELSE IF KeyRaises(ft_row)
                         THEN [m EXCEPT !.out = "ERR"]
                         ELSE m)

\* calls: for ft_row in fetched_records; the key is built before the try,
\* the except clause returns ERR for what the try body raises (its else
\* branch reads ft_row["created"] and ft_row["strike"] for the log line)
RECURSIVE CallsFetchedLoop(_, _, _)
CallsFetchedLoop(fetched_records, i, m) ==
    IF i > Len(fetched_records) \/ m.out # "ok" THEN m
    ELSE LET ft_row == fetched_records[i]
         IN IF KeyRaises(ft_row)
            THEN [m EXCEPT !.out = "KeyError"]
            ELSE CallsFetchedLoop(fetched_records, i + 1,
                    IF date_strike_name(ft_row) \notin m.dates_by_strike_dict
                    THEN [m EXCEPT
                            !.new_records = Append(@, NewNode(ft_row)),
                            !.dates_by_strike_dict =
                                @ \cup {date_strike_name(ft_row)}]
                    ELSE IF KeyRaises(ft_row)
                         THEN [m EXCEPT !.out = "ERR"]
                         ELSE m)

\* mutant: the fetched rows are walked first, so that they take precedence
CallsMergeFetchedFirst(ext_df_, fetch_df_) ==
    CallsFetchedLoop(ToJsonRecords(ext_df_), 1,
        CallsExtractedLoop(ToJsonRecords(fetch_df_), 1, MergeStart))

CallsMerge(ext_df_, fetch_df_) ==
    CallsFetchedLoop(ToJsonRecords(fetch_df_), 1,
        CallsExtractedLoop(ToJsonRecords(ext_df_), 1, MergeStart))

\* puts: for ex_row in extracted_records
RECURSIVE PutsExtractedLoop(_, _, _)
PutsExtractedLoop(extracted_records, i, m) ==
    IF i > Len(extracted_records) \/ m.out # "ok" THEN m
    ELSE LET ex_row == extracted_records[i]
         IN IF KeyRaises(ex_row)
            THEN [m EXCEPT !.out = "KeyError"]
            ELSE PutsExtractedLoop(extracted_records, i + 1,
                    IF date_strike_name(ex_row) \notin m.dates_by_strike_dict
                    THEN [m EXCEPT
                            !.new_records = Append(@, NewNode(ex_row)),
                            !.dates_by_strike_dict =
                                @ \cup {date_strike_name(ex_row)}]
                    ELSE m)

\* mutant: a fetched row with an unseen key is marked seen but not appended
RECURSIVE PutsFetchedLoopDropsNew(_, _, _)
PutsFetchedLoopDropsNew(fetched_records, i, m) ==
    IF i > Len(fetched_records) \/ m.out # "ok" THEN m
    ELSE LET ft_row == fetched_records[i]
         IN IF KeyRaises(ft_row)
            THEN [m EXCEPT !.out = "KeyError"]
            ELSE PutsFetchedLoopDropsNew(fetched_records, i + 1,
                    [m EXCEPT !.dates_by_strike_dict =
                                @ \cup {date_strike_name(ft_row)}])

\* puts: for ft_row in fetched_records
RECURSIVE PutsFetchedLoop(_, _, _)
PutsFetchedLoop(fetched_records, i, m) ==
    IF i > Len(fetched_records) \/ m.out # "ok" THEN m
    ELSE LET ft_row == fetched_records[i]
         IN IF KeyRaises(ft_row)
            THEN [m EXCEPT !.out = "KeyError"]
            ELSE PutsFetchedLoop(fetched_records, i + 1,
                    IF date_strike_name(ft_row) \notin m.dates_by_strike_dict
                    THEN [m EXCEPT
                            !.new_records = Append(@, NewNode(ft_row)),
                            !.dates_by_strike_dict =
                                @ \cup {date_strike_name(ft_row)}]
                    ELSE IF KeyRaises(ft_row)
                         THEN [m EXCEPT !.out = "ERR"]
                         ELSE m)

\* mutant: the puts drop the cached rows and keep the fetched ones alone
PutsMergeFetchedOnly(ext_df_, fetch_df_) ==
    PutsFetchedLoop(ToJsonRecords(fetch_df_), 1, MergeStart)

PutsMerge(ext_df_, fetch_df_) ==
    PutsFetchedLoop(ToJsonRecords(fetch_df_), 1,
        PutsExtractedLoop(ToJsonRecords(ext_df_), 1, MergeStart))

\* ------------------------------------------------------ how a call ends
Return(status, df) ==
    [kind |-> "return", status |-> status, df |-> df, exc |-> "none"]
Raise(exc) ==
    [kind |-> "raise", status |-> NOT_SET, df |-> NoneDF, exc |-> exc]
NoResult ==
    [kind |-> "none", status |-> NOT_SET, df |-> NoneDF, exc |-> "none"]

\* df = pd.DataFrame([{}]): one row, no column
PlaceholderDF == DataFrame(<< <<>> >>)

\* mutant: a failed fetch falls back to the cached frame
CallsBranchFallsBack(status_df, fetch_df_, ext_status_, ext_df_) ==
    IF status_df = SUCCESS
    THEN IF ext_status_ = SUCCESS /\ Len(ext_df_.rows) > 0
         THEN LET m == CallsMerge(ext_df_, fetch_df_)
                  df == DataFrame(m.new_records)
              IN IF m.out = "KeyError" THEN Raise("KeyError")
                 ELSE IF m.out = "ERR" THEN Return(ERR, NoneDF)
                 ELSE IF SortRaises(df) THEN Raise("KeyError")
                 ELSE Return(status_df, df)
         ELSE IF SortRaises(fetch_df_) THEN Raise("KeyError")
              ELSE Return(status_df, SortValues(fetch_df_))
    ELSE IF ext_status_ = SUCCESS /\ Len(ext_df_.rows) > 0
         THEN Return(SUCCESS, ext_df_)
         ELSE Return(status_df, PlaceholderDF)

\* the calls branch once fetch_calls has answered (status_df, fetch_df) and,
\* when it is called, extract_option_calls_dataset (ext_status, ext_df)
CallsBranch(status_df, fetch_df_, ext_status_, ext_df_) ==
    IF status_df = SUCCESS
    THEN IF ext_status_ = SUCCESS /\ Len(ext_df_.rows) > 0
         THEN LET m == CallsMerge(ext_df_, fetch_df_)
                  df == DataFrame(m.new_records)
              IN IF m.out = "KeyError" THEN Raise("KeyError")
                 ELSE IF m.out = "ERR" THEN Return(ERR, NoneDF)
                 ELSE IF SortRaises(df) THEN Raise("KeyError")
                 ELSE Return(status_df, df)
         ELSE IF SortRaises(fetch_df_) THEN Raise("KeyError")
              ELSE Return(status_df, SortValues(fetch_df_))
    ELSE Return(status_df, PlaceholderDF)

\* the puts branch
PutsBranch(status_df, fetch_df_, ext_status_, ext_df_) ==
    IF status_df = SUCCESS
    THEN IF ext_status_ = SUCCESS /\ Len(ext_df_.rows) > 0
         THEN LET m == PutsMerge(ext_df_, fetch_df_)
                  df == DataFrame(m.new_records)
              IN IF m.out = "KeyError" THEN Raise("KeyError")
                 ELSE IF m.out = "ERR" THEN Return(ERR, NoneDF)
                 ELSE IF SortRaises(df) THEN Raise("KeyError")
                 ELSE Return(status_df, df)
         ELSE IF SortRaises(fetch_df_) THEN Raise("KeyError")
              ELSE Return(status_df, SortValues(fetch_df_))
    ELSE Return(status_df, PlaceholderDF)

\* ------------------------------------------------- choosing the branch
LowerChar(c) ==
    CASE c = "A" -> "a" [] c = "B" -> "b" [] c = "C" -> "c" [] c = "D" -> "d"
      [] c = "E" -> "e" [] c = "F" -> "f" [] c = "G" -> "g" [] c = "H" -> "h"
      [] c = "I" -> "i" [] c = "J" -> "j" [] c = "K" -> "k" [] c = "L" -> "l"
      [] c = "M" -> "m" [] c = "N" -> "n" [] c = "O" -> "o" [] c = "P" -> "p"
      [] c = "Q" -> "q" [] c = "R" -> "r" [] c = "S" -> "s" [] c = "T" -> "t"
      [] c = "U" -> "u" [] c = "V" -> "v" [] c = "W" -> "w" [] c = "X" -> "x"
      [] c = "Y" -> "y" [] c = "Z" -> "z" [] OTHER -> c

Lower(s) == [i \in 1..Len(s) |-> LowerChar(s[i])]

\* Python truth of a value: None, 0 and '' are false
Truthy(v) ==
    CASE v.t = "none" -> FALSE
      [] v.t = "int" -> v.n # 0
      [] v.t = "str" -> v.s # <<>>
      [] v.t = "nan" -> TRUE

\* work_dict.get(key, None)
DictGet(d, key) == IF key \in DOMAIN d THEN d[key] ELSE NoneV

\* mutant: work_dict['ft_type'] wins over the fetch_type argument
EffectiveFetchTypeDictFirst(work_dict_, fetch_type_) ==
    IF "ft_type" \in DOMAIN work_dict_ THEN work_dict_["ft_type"]
    ELSE fetch_type_

\* fetch_type after 'if not fetch_type: fetch_type = work_dict.get(...)'
EffectiveFetchType(work_dict_, fetch_type_) ==
    IF ~Truthy(fetch_type_) THEN DictGet(work_dict_, "ft_type") ELSE fetch_type_

\* use_fetch_name = str(fetch_type).lower() when fetch_type is true, else None
UseFetchName(ft) == IF Truthy(ft) THEN StrV(Lower(Str(ft))) ELSE NoneV

IsCallsBranch(ft) ==
    \/ UseFetchName(ft) = StrV(<< "a", "p", "c", "a", "l", "l", "s" >>)
    \/ ft = IntV(FETCH_AP_CALLS)

IsPutsBranch(ft) ==
    /\ ~IsCallsBranch(ft)
    /\ \/ UseFetchName(ft) = StrV(<< "a", "p", "p", "u", "t", "s" >>)
       \/ ft = IntV(FETCH_AP_PUTS)

\* opt_dates.option_expiration().strftime(COMMON_DATE_FORMAT)
DefaultExpDate == StrV(<< "e", "x", "p" >>)

\* mutant: exp_date is set whether the caller gave one or not
WithExpDateAlways(work_dict_) ==
    [k \in DOMAIN work_dict_ \cup {"exp_date"} |->
        IF k = "exp_date" THEN DefaultExpDate ELSE work_dict_[k]]

\* if 'exp_date' not in work_dict: work_dict['exp_date'] = ...
WithExpDate(work_dict_) ==
    IF "exp_date" \in DOMAIN work_dict_ THEN work_dict_
    ELSE [k \in DOMAIN work_dict_ \cup {"exp_date"} |->
            IF k = "exp_date" THEN DefaultExpDate ELSE work_dict_[k]]

\* --------------------------------------- the dict the cache extract is given
\* d[key] = value
DictSet(d, key, value) ==
    [k \in DOMAIN d \cup {key} |-> IF k = key THEN value ELSE d[k]]

\* f'{value}suffix'
FStr(value, suffix) == StrV(Str(value) \o suffix)

\* the work_copy of a branch: the dict, or the KeyError of a missing key
Built(d) == [raises |-> FALSE, dict |-> d]
NoWorkCopy == [raises |-> FALSE, dict |-> << >>]
WorkCopyKeyError == [raises |-> TRUE, dict |-> << >>]

\* lines 77-86: the deep copy of work_dict with the keys of the cached calls
CallsWorkCopy(work_dict_) ==
    LET c == DictSet(DictSet(work_dict_, "ft_type", IntV(FETCH_AP_CALLS)),
                     "fd_type", StrV(<< "a", "p", "c", "a", "l", "l", "s" >>))
    IN IF "apcalls" \in DOMAIN work_dict_
       THEN Built(DictSet(DictSet(c, "redis_key", work_dict_["apcalls"]),
                "s3_key",
                FStr(work_dict_["apcalls"], << ".", "j", "s", "o", "n" >>)))
       ELSE IF "redis_key" \notin DOMAIN work_dict_ THEN WorkCopyKeyError
       ELSE Built(DictSet(DictSet(c, "redis_key",
                FStr(work_dict_["redis_key"],
                     << "_", "a", "p", "c", "a", "l", "l", "s" >>)),
                "s3_key",
                FStr(work_dict_["redis_key"],
                     << "_", "a", "p", "c", "a", "l", "l", "s" >>)))

\* mutant: the puts derive their keys with the suffix of the calls
PutsWorkCopyCallsSuffix(work_dict_) ==
    LET c == DictSet(DictSet(work_dict_, "ft_type", IntV(FETCH_AP_PUTS)),
                     "fd_type", StrV(<< "a", "p", "p", "u", "t", "s" >>))
    IN IF "apputs" \in DOMAIN work_dict_
       THEN Built(DictSet(DictSet(c, "redis_key", work_dict_["apputs"]),
                "s3_key",
                FStr(work_dict_["apputs"], << ".", "j", "s", "o", "n" >>)))
       ELSE IF "redis_key" \notin DOMAIN work_dict_ THEN WorkCopyKeyError
       ELSE IF "s3_key" \notin DOMAIN work_dict_ THEN WorkCopyKeyError
       ELSE Built(DictSet(DictSet(c, "redis_key",
                FStr(work_dict_["redis_key"],
                     << "_", "a", "p", "c", "a", "l", "l", "s" >>)),
                "s3_key",
                FStr(work_dict_["s3_key"],
                     << "_", "a", "p", "c", "a", "l", "l", "s" >>)))

\* lines 177-186: the same for the puts; the s3 key is built from s3_key
PutsWorkCopy(work_dict_) ==
    LET c == DictSet(DictSet(work_dict_, "ft_type", IntV(FETCH_AP_PUTS)),
                     "fd_type", StrV(<< "a", "p", "p", "u", "t", "s" >>))
    IN IF "apputs" \in DOMAIN work_dict_
       THEN Built(DictSet(DictSet(c, "redis_key", work_dict_["apputs"]),
                "s3_key",
                FStr(work_dict_["apputs"], << ".", "j", "s", "o", "n" >>)))
       ELSE IF "redis_key" \notin DOMAIN work_dict_ THEN WorkCopyKeyError
       ELSE IF "s3_key" \notin DOMAIN work_dict_ THEN WorkCopyKeyError
       ELSE Built(DictSet(DictSet(c, "redis_key",
                FStr(work_dict_["redis_key"],
                     << "_", "a", "p", "p", "u", "t", "s" >>)),
                "s3_key",
                FStr(work_dict_["s3_key"],
                     << "_", "a", "p", "p", "u", "t", "s" >>)))

\* ------------------------------------------------------------- the inputs
SeqsUpTo(S, n) == UNION {[1..k -> S] : k \in 0..n}

CellDom(c) ==
    CASE c = "created" -> {StrV(<< "a" >>), StrV(<< "b" >>)}
      [] c = "strike" -> {IntV(1), IntV(2)}
      [] c = "date" -> {IntV(1), IntV(2)}
      [] c = "index" -> {IntV(0)}
      [] c = "symbol" -> {StrV(<< "S", "P", "Y" >>)}

\* the column sets of the frames the collaborators hand over: a full frame
\* (with the index column a reset_index leaves and a column that is not an
\* option column), and frames without strike, without created, without date
ColumnShapes ==
    { {"created", "strike", "date", "index", "symbol"},
      {"created", "date", "index", "symbol"},
      {"strike", "date", "index", "symbol"},
      {"created", "strike", "index", "symbol"} }

RowsOver(cs) ==
    {r \in [cs -> UNION {CellDom(c) : c \in cs}] :
        \A c \in cs : r[c] \in CellDom(c)}

\* the frames of at most n rows, for every n up to MaxRows
Frames ==
    [n \in 0..MaxRows |->
        UNION {{[none |-> FALSE, columns |-> cs, rows |-> rs] :
                    rs \in SeqsUpTo(RowsOver(cs), n)} : cs \in ColumnShapes}]

\* what ap_fetch.fetch_calls / fetch_puts answer: (status, frame)
ProviderAnswers ==
    {[status |-> SUCCESS, df |-> f] : f \in Frames[MaxRows]}
        \cup {[status |-> s, df |-> NoneDF] : s \in {EMPTY, ERR}}

\* what ap_extract.extract_option_*_dataset answers: (status, frame)
CacheAnswers ==
    [n \in 0..MaxRows |->
        {[status |-> SUCCESS, df |-> f] : f \in Frames[n]}
            \cup {[status |-> s, df |-> NoneDF] : s \in {EMPTY, ERR}}]

\* what the extract answers, or would answer: it is called only after a
\* successful fetch
ExtractAnswers(fetch) ==
    {[called |-> fetch.status = SUCCESS, status |-> e.status, df |-> e.df] :
        e \in CacheAnswers[MaxRows - Len(fetch.df.rows)]}

FetchTypes == {IntV(FETCH_AP_CALLS), IntV(FETCH_AP_PUTS), NoneV}

\* a work_dict as the dataset tasks build it: ticker and the two cache keys
PlainWorkDict ==
    [k \in {"ticker", "redis_key", "s3_key"} |->
        IF k = "ticker" THEN StrV(<< "S", "P", "Y" >>) ELSE StrV(<< "k" >>)]

WorkDicts == {PlainWorkDict}

\* ---------------------------------------------------------------- state
VARIABLES
    pc,           \* "idle": no call under way; "done": fetch_data has ended
    fetch_type,   \* the fetch_type argument of the call
    work_dict,    \* the caller's work_dict (fetch_data writes exp_date to it)
    fetch_status, \* what the provider answered
    fetch_df,
    ext_called,   \* whether the cache extract was called
    ext_status,   \* what the cache extract answers when it is called
    ext_df,
    new_records,  \* the merged records, when the merge ran to its end
    result,       \* how the call ended: a returned (status, df) or a raise
    fetcher,      \* the provider function the call used, or "none"
    work_copy,    \* the dict the cache extract was given, when it was built
    work_dict_given \* the caller's work_dict as it was when the call began

fd_vars == << pc, fetch_type, work_dict, fetch_status, fetch_df, ext_called,
              ext_status, ext_df, new_records, result, fetcher, work_copy,
              work_dict_given >>

VARIABLES
    two_calls,    \* a calls and a puts call started from one work_dict:
                  \* the dict each of them hands to the cache extract
    task,         \* a run_distributed_algorithm task: its request, what its
                  \* collaborators do, and how it ended
    loaded,       \* a load_dataset call: its arguments, what the loaders
                  \* answer, the loaders it invoked and what it returned
    auth,         \* a get_auth_headers call: the module defaults, the
                  \* arguments, the environment and the headers returned
    extracted,    \* a call of a yahoo extractor: the function, its
                  \* work_dict, what redis and the scrub do, and how it ended
    yahoo         \* a get_data_from_yahoo call: its work_dict, what it
                  \* called and logged, and the result it returned

\* the state of the other functions of the repository, further down
not_fd_vars == << two_calls, task, loaded, auth, extracted, yahoo >>
not_two_calls_vars == << fd_vars, task, loaded, auth, extracted, yahoo >>
not_task_vars == << fd_vars, two_calls, loaded, auth, extracted, yahoo >>
not_loaded_vars == << fd_vars, two_calls, task, auth, extracted, yahoo >>
not_auth_vars == << fd_vars, two_calls, task, loaded, extracted, yahoo >>
not_extracted_vars == << fd_vars, two_calls, task, loaded, auth, yahoo >>
not_yahoo_vars == << fd_vars, two_calls, task, loaded, auth, extracted >>

vars == << fd_vars, not_fd_vars >>

\* no pair of calls is under way
NoTwoCalls ==
    [work_dict |-> << >>, calls |-> NoWorkCopy, puts |-> NoWorkCopy]

\* no task is under way
NoTask == [kind |-> "none"]

\* no load_dataset call is under way
NoLoad == [kind |-> "none"]

\* no get_auth_headers call is under way
NoAuth == [kind |-> "none"]

\* no extractor call is under way
NoExtract == [kind |-> "none"]

\* no get_data_from_yahoo call is under way
NoYahoo == [kind |-> "none"]

Init ==
    /\ pc = "idle"
    /\ fetch_type = NoneV
    /\ work_dict = <<>>
    /\ fetch_status = NOT_SET
    /\ fetch_df = NoneDF
    /\ ext_called = FALSE
    /\ ext_status = NOT_SET
    /\ ext_df = NoneDF
    /\ new_records = <<>>
    /\ result = NoResult
    /\ fetcher = "none"
    /\ work_copy = << >>
    /\ work_dict_given = << >>
    /\ two_calls = NoTwoCalls
    /\ task = NoTask
    /\ loaded = NoLoad
    /\ auth = NoAuth
    /\ extracted = NoExtract
    /\ yahoo = NoYahoo

Merged(f, e) == e.called /\ e.status = SUCCESS /\ Len(e.df.rows) > 0

\* mutant: a fetch type that names no fetcher is served by the calls branch
BranchOfCallsByDefault(ft) ==
    IF IsPutsBranch(ft) THEN "puts" ELSE "calls"

\* the branch of the if / elif / else of lines 68, 169 and 266
BranchOf(ft) ==
    IF IsCallsBranch(ft) THEN "calls"
    ELSE IF IsPutsBranch(ft) THEN "puts"
    ELSE "unsupported"

\* lines 48-61: the fetch type and exp_date, for a call that takes branch b
Request(b) ==
    \E wd \in WorkDicts, ft \in FetchTypes :
        /\ BranchOf(EffectiveFetchType(wd, ft)) = b
        /\ fetch_type' = ft
        /\ work_dict_given' = wd
        /\ work_dict' = WithExpDate(wd)

\* the calls branch with the provider answering f and the cache holding e
CallsStep(f, e) ==
    LET wc == IF f.status = SUCCESS THEN CallsWorkCopy(work_dict')
              ELSE NoWorkCopy
    IN /\ fetcher' = "fetch_calls"
       /\ fetch_status' = f.status
       /\ fetch_df' = f.df
       /\ work_copy' = wc.dict
       /\ ext_called' = (e.called /\ ~wc.raises)
       /\ ext_status' = e.status
       /\ ext_df' = e.df
       /\ new_records' =
            LET m == IF Merged(f, e) /\ ~wc.raises
                     THEN CallsMerge(e.df, f.df) ELSE MergeStart
            IN IF m.out = "ok" THEN m.new_records ELSE <<>>
       /\ result' = IF wc.raises THEN Raise("KeyError")
                     ELSE CallsBranch(f.status, f.df, e.status, e.df)

\* the puts branch with the provider answering f and the cache holding e
PutsStep(f, e) ==
    LET wc == IF f.status = SUCCESS THEN PutsWorkCopy(work_dict')
              ELSE NoWorkCopy
    IN /\ fetcher' = "fetch_puts"
       /\ fetch_status' = f.status
       /\ fetch_df' = f.df
       /\ work_copy' = wc.dict
       /\ ext_called' = (e.called /\ ~wc.raises)
       /\ ext_status' = e.status
       /\ ext_df' = e.df
       /\ new_records' =
            LET m == IF Merged(f, e) /\ ~wc.raises
                     THEN PutsMerge(e.df, f.df) ELSE MergeStart
            IN IF m.out = "ok" THEN m.new_records ELSE <<>>
       /\ result' = IF wc.raises THEN Raise("KeyError")
                     ELSE PutsBranch(f.status, f.df, e.status, e.df)

\* fetch_data(work_dict, fetch_type) taking the calls branch
fetch_data_calls ==
    /\ pc = "idle"
    /\ Request("calls")
    /\ \E f \in ProviderAnswers :
        \E e \in ExtractAnswers(f) : CallsStep(f, e)
    /\ pc' = "done"
    /\ UNCHANGED not_fd_vars

\* fetch_data(work_dict, fetch_type) taking the puts branch
fetch_data_puts ==
    /\ pc = "idle"
    /\ Request("puts")
    /\ \E f \in ProviderAnswers :
        \E e \in ExtractAnswers(f) : PutsStep(f, e)
    /\ pc' = "done"
    /\ UNCHANGED not_fd_vars

\* fetch_data(work_dict, fetch_type) with a fetch type that is neither
fetch_data_unsupported ==
    /\ pc = "idle"
    /\ Request("unsupported")
    /\ result' = Raise("NotImplementedError")
    /\ pc' = "done"
    /\ UNCHANGED << fetch_status, fetch_df, ext_called, ext_status, ext_df,
                    new_records, fetcher, work_copy >>
    /\ UNCHANGED not_fd_vars

\* the caller takes the result; the next call starts from scratch
NextCall ==
    /\ pc = "done"
    /\ pc' = "idle"
    /\ fetch_type' = NoneV
    /\ work_dict' = <<>>
    /\ fetch_status' = NOT_SET
    /\ fetch_df' = NoneDF
    /\ ext_called' = FALSE
    /\ ext_status' = NOT_SET
    /\ ext_df' = NoneDF
    /\ new_records' = <<>>
    /\ result' = NoResult
    /\ fetcher' = "none"
    /\ work_copy' = << >>
    /\ work_dict_given' = << >>
    /\ UNCHANGED not_fd_vars

Next ==
    \/ fetch_data_calls
    \/ fetch_data_puts
    \/ fetch_data_unsupported
    \/ NextCall

Spec == Init /\ [][Next]_vars

\* --------------------------------------------- the provider repeats the cache
\* rows of the frame that is both cached and fetched again
MaxSame == 2

\* a poll that returns exactly the batch that is cached: incoming = base
SameAnswers ==
    {[status |-> SUCCESS, df |-> f] :
        f \in {g \in Frames[MaxSame] : Len(g.rows) > 0}}

AsCached(f) == [called |-> TRUE, status |-> SUCCESS, df |-> f.df]

fetch_data_calls_same ==
    /\ pc = "idle"
    /\ Request("calls")
    /\ \E f \in SameAnswers : CallsStep(f, AsCached(f))
    /\ pc' = "done"
    /\ UNCHANGED not_fd_vars

fetch_data_puts_same ==
    /\ pc = "idle"
    /\ Request("puts")
    /\ \E f \in SameAnswers : PutsStep(f, AsCached(f))
    /\ pc' = "done"
    /\ UNCHANGED not_fd_vars

NextSame ==
    \/ fetch_data_calls_same
    \/ fetch_data_puts_same
    \/ NextCall

SpecSame == Init /\ [][NextSame]_vars

\* ------------------------------------- every way of naming the fetch type
\* a key that a work_dict does not hold
Absent == [t |-> "absent", n |-> 0, s |-> << >>]

\* the fetch_type argument: not given, the two enums, their names in some
\* letter cases, and values that name no fetcher
FetchTypesAny ==
    { NoneV, IntV(FETCH_AP_CALLS), IntV(FETCH_AP_PUTS),
      StrV(<< "a", "p", "c", "a", "l", "l", "s" >>),
      StrV(<< "A", "p", "C", "a", "l", "l", "s" >>),
      StrV(<< "a", "p", "p", "u", "t", "s" >>),
      StrV(<< "A", "P", "P", "U", "T", "S" >>),
      StrV(<< "c", "a", "l", "l", "s" >>),
      StrV(<< "2", "0", "0", "0", "0" >>) }

\* the optional keys of a work_dict and the values a caller gives them
WorkDictChoices ==
    [ redis_key : {Absent, StrV(<< "k" >>)},
      s3_key : {Absent, StrV(<< "k" >>)},
      ft_type : {Absent, IntV(FETCH_AP_PUTS),
                 StrV(<< "a", "p", "c", "a", "l", "l", "s" >>),
                 StrV(<< "c", "a", "l", "l", "s" >>)},
      apcalls : {Absent, StrV(<< "c" >>),
                 StrV(<< "k", "_", "a", "p", "p", "u", "t", "s" >>)},
      apputs : {Absent, StrV(<< "c" >>)},
      exp_date : {Absent, StrV(<< "d" >>)} ]

WorkDictOf(choice) ==
    [k \in {"ticker"} \cup {c \in DOMAIN choice : choice[c] # Absent} |->
        IF k = "ticker" THEN StrV(<< "S", "P", "Y" >>) ELSE choice[k]]

WorkDictsAny == {WorkDictOf(choice) : choice \in WorkDictChoices}

\* lines 48-61 for any work_dict and fetch type that take branch b
RequestAny(b) ==
    \E wd \in WorkDictsAny, ft \in FetchTypesAny :
        /\ BranchOf(EffectiveFetchType(wd, ft)) = b
        /\ fetch_type' = ft
        /\ work_dict_given' = wd
        /\ work_dict' = WithExpDate(wd)

\* a few answers of the provider and of the cache
OneRow ==
    [c \in {"created", "strike", "date", "index", "symbol"} |->
        CASE c = "created" -> StrV(<< "a" >>)
          [] c = "strike" -> IntV(1)
          [] c = "date" -> IntV(1)
          [] c = "index" -> IntV(0)
          [] c = "symbol" -> StrV(<< "S", "P", "Y" >>)]

FewFrames ==
    {[none |-> FALSE, columns |-> DOMAIN OneRow, rows |-> rs] :
        rs \in {<< >>, << OneRow >>}}

ProviderAnswersFew ==
    {[status |-> SUCCESS, df |-> f] : f \in FewFrames}
        \cup {[status |-> s, df |-> NoneDF] : s \in {EMPTY, ERR}}

ExtractAnswersFew(fetch) ==
    {[called |-> fetch.status = SUCCESS, status |-> SUCCESS,
      df |-> [none |-> FALSE, columns |-> DOMAIN OneRow,
              rows |-> << OneRow >>]],
     [called |-> fetch.status = SUCCESS, status |-> EMPTY, df |-> NoneDF]}

fetch_data_calls_any ==
    /\ pc = "idle"
    /\ RequestAny("calls")
    /\ \E f \in ProviderAnswersFew :
        \E e \in ExtractAnswersFew(f) : CallsStep(f, e)
    /\ pc' = "done"
    /\ UNCHANGED not_fd_vars

fetch_data_puts_any ==
    /\ pc = "idle"
    /\ RequestAny("puts")
    /\ \E f \in ProviderAnswersFew :
        \E e \in ExtractAnswersFew(f) : PutsStep(f, e)
    /\ pc' = "done"
    /\ UNCHANGED not_fd_vars

fetch_data_unsupported_any ==
    /\ pc = "idle"
    /\ RequestAny("unsupported")
    /\ result' = Raise("NotImplementedError")
    /\ pc' = "done"
    /\ UNCHANGED << fetch_status, fetch_df, ext_called, ext_status, ext_df,
                    new_records, fetcher, work_copy >>
    /\ UNCHANGED not_fd_vars

NextAny ==
    \/ fetch_data_calls_any
    \/ fetch_data_puts_any
    \/ fetch_data_unsupported_any
    \/ NextCall

SpecAny == Init /\ [][NextAny]_vars

\* ------------------------------- a calls and a puts call from one work_dict
\* fetch_data(work_dict, FETCH_AP_CALLS) and fetch_data(work_dict,
\* FETCH_AP_PUTS), each with a provider that answers SUCCESS, up to the call
\* of the cache extract: the work_copy each of them hands to it
fetch_data_calls_and_puts ==
    /\ two_calls = NoTwoCalls
    /\ \E wd \in WorkDictsAny :
        two_calls' =
            [work_dict |-> wd,
             calls |-> CallsWorkCopy(WithExpDate(wd)),
             puts |-> PutsWorkCopy(WithExpDate(wd))]
    /\ UNCHANGED not_two_calls_vars

\* both calls have ended
TwoCallsEnd ==
    /\ two_calls # NoTwoCalls
    /\ two_calls' = NoTwoCalls
    /\ UNCHANGED not_two_calls_vars

NextTwoCalls ==
    \/ fetch_data_calls_and_puts
    \/ TwoCallsEnd

SpecTwoCalls == Init /\ [][NextTwoCalls]_vars

\* ------------------------------------------------ run_distributed_algorithm
NOT_RUN == "NOT_RUN"

\* where the algorithm class comes from: the BaseAlgo; a mod_path file that
\* holds the class, that does not hold it, or that fails to load; a
\* custom_algo_module given with use_custom_algo, with or without the class
AlgoSources ==
    { "BaseAlgo", "mod_path", "mod_path_no_class", "mod_path_load_fails",
      "custom_algo_module", "custom_algo_module_no_class" }

\* the parts of algo_req the task reads
AlgoReqs ==
    [ source : AlgoSources,
      raise_on_err : {"absent", "True", "False"},
      publish_extract : BOOLEAN,
      publish_history : BOOLEAN,
      publish_report : BOOLEAN ]

\* what a publish does: it returns a status, it raises, or its config is
\* None and reading config['redis_address'] raises before the publish
PublishOutcomes == {SUCCESS, ERR, "raises", "no_config"}

\* what the collaborators of the task do when they are called
Collaborators ==
    [ create : {"object", "falsy", "raises"},
      run_algo : {"ok", "raises"},
      publish_input_dataset : PublishOutcomes,
      publish_trade_history_dataset : PublishOutcomes,
      publish_report_dataset : PublishOutcomes ]

\* build_result.build_result(status, err, rec)
build_result(status, err) == [status |-> status, err |-> err]

\* lines 89-93, 156: res, err, and what the task has logged and called so far;
\* e is the exception under way, ended how the function was left
TaskStart ==
    [ res |-> build_result(NOT_RUN, "None"),
      err |-> "None",
      log |-> << >>,
      calls |-> << >>,
      e |-> "None",
      ended |-> "running" ]

Running(t) == t.ended = "running" /\ t.e = "None"

\* err = msg; log.error(err); res = build_result(ERR, err); return
ReturnErr(t, msg) ==
    [t EXCEPT !.err = msg,
              !.log = Append(@, msg),
              !.res = build_result(ERR, msg),
              !.ended = "return"]

\* mutant: raise_on_err is off unless the caller asks for it
raise_on_err_off(algo_req) == algo_req.raise_on_err = "True"

\* raise_on_err = algo_req.get('raise_on_err', True)
raise_on_err(algo_req) == algo_req.raise_on_err # "False"

\* lines 157-172: loading the module of mod_path, outside the try
LoadModule(t, algo_req) ==
    IF algo_req.source = "mod_path_load_fails"
    THEN [t EXCEPT !.e = "exec_module", !.ended = "raise"]
    ELSE IF algo_req.source = "mod_path_no_class"
    THEN ReturnErr(t, "unable to find custom algorithm module")
    ELSE t

\* lines 233-275: the algorithm object is created
CreateAlgo(t, algo_req, world) ==
    IF ~Running(t) THEN t
    ELSE IF algo_req.source = "custom_algo_module_no_class"
    THEN ReturnErr(t, "did not find a derived BaseAlgo class")
    ELSE LET c == [t EXCEPT !.calls = Append(@, "create")]
         IN IF world.create = "raises" THEN [c EXCEPT !.e = "create"]
            ELSE c

\* mutant: an object that is not true is not run and the task goes on
RunAlgoSkipsFalsy(t, world) ==
    IF ~Running(t) \/ world.create = "falsy" THEN t
    ELSE LET c == [t EXCEPT !.calls = Append(@, "run_algo")]
         IN IF world.run_algo = "raises" THEN [c EXCEPT !.e = "run_algo"]
            ELSE c

\* lines 277-327: the algorithm runs when the object is true
RunAlgo(t, world) ==
    IF ~Running(t) THEN t
    ELSE IF world.create = "falsy"
    THEN ReturnErr(t, "missing a derived BaseAlgo class")
    ELSE LET c == [t EXCEPT !.calls = Append(@, "run_algo")]
         IN IF world.run_algo = "raises" THEN [c EXCEPT !.e = "run_algo"]
            ELSE c

\* mutant: a publish whose status is not SUCCESS is logged and the task
\* goes on to the next dataset
PublishKeepsGoing(t, wanted, name, outcome) ==
    IF ~Running(t) \/ ~wanted THEN t
    ELSE IF outcome = "no_config" THEN [t EXCEPT !.e = "TypeError"]
    ELSE LET c == [t EXCEPT !.calls = Append(@, name)]
         IN IF outcome = "raises" THEN [c EXCEPT !.e = name]
            ELSE IF outcome # SUCCESS
            THEN [c EXCEPT !.log = Append(@, "failed to publish")]
            ELSE c

\* lines 352-412, 414-471, 473-530: one publish; a status other than SUCCESS
\* logs msg and returns build_result(ERR, err) with the err of line 156
Publish(t, wanted, name, outcome) ==
    IF ~Running(t) \/ ~wanted THEN t
    ELSE IF outcome = "no_config" THEN [t EXCEPT !.e = "TypeError"]
    ELSE LET c == [t EXCEPT !.calls = Append(@, name)]
         IN IF outcome = "raises" THEN [c EXCEPT !.e = name]
            ELSE IF outcome # SUCCESS
            THEN [c EXCEPT !.log = Append(@, "failed to publish"),
                           !.res = build_result(ERR, c.err),
                           !.ended = "return"]
            ELSE c

\* lines 540-569: the end of the try, the except clause, the last return
EndOfTry(t, algo_req) ==
    IF t.ended # "running" THEN t
    ELSE IF t.e = "None"
    THEN [t EXCEPT !.res = build_result(SUCCESS, "None"),
                   !.ended = "return"]
    ELSE LET x == [t EXCEPT !.res =
                    build_result(ERR, "failed - run_distributed_algorithm")]
         IN IF raise_on_err(algo_req) THEN [x EXCEPT !.ended = "raise"]
            ELSE [x EXCEPT !.log = Append(@, x.res.err),
                           !.ended = "return"]

\* the whole task
RunDistributedAlgorithm(algo_req, world) ==
    LET t_loaded == LoadModule(TaskStart, algo_req)
        t_created == CreateAlgo(t_loaded, algo_req, world)
        t_ran == RunAlgo(t_created, world)
        extract == Publish(t_ran, algo_req.publish_extract,
                        "publish_input_dataset",
                        world.publish_input_dataset)
        history == Publish(extract, algo_req.publish_history,
                        "publish_trade_history_dataset",
                        world.publish_trade_history_dataset)
        report == Publish(history, algo_req.publish_report,
                        "publish_report_dataset",
                        world.publish_report_dataset)
    IN EndOfTry(report, algo_req)

\* the task is run; task_result is what it returns, when it returns
run_distributed_algorithm ==
    /\ task = NoTask
    /\ \E algo_req \in AlgoReqs, world \in Collaborators :
        LET t == RunDistributedAlgorithm(algo_req, world)
        IN task' =
            [ kind |-> t.ended,
              algo_req |-> algo_req,
              world |-> world,
              task_result |-> t.res,
              e |-> t.e,
              log |-> t.log,
              calls |-> t.calls ]
    /\ UNCHANGED not_task_vars

\* the worker takes the next task
NextTask ==
    /\ task # NoTask
    /\ task' = NoTask
    /\ UNCHANGED not_task_vars

NextAlgo ==
    \/ run_distributed_algorithm
    \/ NextTask

SpecAlgo == Init /\ [][NextAlgo]_vars

\* ------------------------------------------------------------- load_dataset
SA_DATASET_TYPE_ALGO_READY == "SA_DATASET_TYPE_ALGO_READY"

\* a dataset: None, an empty one (false in Python), the one the caller
\* passes as algo_dataset, the one a loader builds
Datasets == {"None", "empty", "algo_dataset", "file", "s3", "redis"}

DatasetTruthy(ds) == ds \notin {"None", "empty"}

\* the arguments of load_dataset that choose the source
LoadArgs ==
    [ algo_dataset : {"None", "empty", "algo_dataset"},
      dataset_type : {SA_DATASET_TYPE_ALGO_READY, "SA_DATASET_TYPE_OTHER"},
      path_to_file : {NoneV, StrV(<< >>), StrV(<< "p" >>)},
      s3_key : {NoneV, StrV(<< >>), StrV(<< "s" >>)},
      redis_key : {NoneV, StrV(<< >>), StrV(<< "r" >>)} ]

\* what each loader returns when it is invoked: its dataset, or None
LoaderAnswers ==
    [ load_algo_dataset_from_file : {"None", "file"},
      load_algo_dataset_from_s3 : {"None", "s3"},
      load_algo_dataset_from_redis : {"None", "redis"} ]

\* use_ds and the loaders invoked so far
Loading(use_ds, invoked) == [use_ds |-> use_ds, invoked |-> invoked]

\* mutant: a loader that returns nothing is followed by the next source
LoadDatasetNextSource(args, answers) ==
    LET a == IF Truthy(args.path_to_file)
             THEN Loading(answers.load_algo_dataset_from_file,
                          << "load_algo_dataset_from_file" >>)
             ELSE Loading(args.algo_dataset, << >>)
        b == IF Truthy(args.s3_key) /\ ~DatasetTruthy(a.use_ds)
             THEN Loading(answers.load_algo_dataset_from_s3,
                          Append(a.invoked, "load_algo_dataset_from_s3"))
             ELSE a
        c == IF Truthy(args.redis_key) /\ ~DatasetTruthy(b.use_ds)
             THEN Loading(answers.load_algo_dataset_from_redis,
                          Append(b.invoked, "load_algo_dataset_from_redis"))
             ELSE b
    IN IF args.dataset_type # SA_DATASET_TYPE_ALGO_READY
       THEN Loading("None", << >>)
       ELSE IF DatasetTruthy(args.algo_dataset)
       THEN Loading(args.algo_dataset, << >>)
       ELSE c

\* lines 128-185: use_ds = algo_dataset, then the if / elif / elif over the
\* sources of a supported dataset type, else None
LoadDataset(args, answers) ==
    IF args.dataset_type = SA_DATASET_TYPE_ALGO_READY
    THEN IF Truthy(args.path_to_file) /\ ~DatasetTruthy(args.algo_dataset)
         THEN Loading(answers.load_algo_dataset_from_file,
                      << "load_algo_dataset_from_file" >>)
         ELSE IF Truthy(args.s3_key) /\ ~DatasetTruthy(args.algo_dataset)
         THEN Loading(answers.load_algo_dataset_from_s3,
                      << "load_algo_dataset_from_s3" >>)
         ELSE IF Truthy(args.redis_key) /\ ~DatasetTruthy(args.algo_dataset)
         THEN Loading(answers.load_algo_dataset_from_redis,
                      << "load_algo_dataset_from_redis" >>)
         ELSE Loading(args.algo_dataset, << >>)
    ELSE Loading("None", << >>)

load_dataset ==
    /\ loaded = NoLoad
    /\ \E args \in LoadArgs, answers \in LoaderAnswers :
        LET l == LoadDataset(args, answers)
        IN loaded' =
            [ kind |-> "return",
              args |-> args,
              answers |-> answers,
              invoked |-> l.invoked,
              use_ds |-> l.use_ds ]
    /\ UNCHANGED not_loaded_vars

\* the caller has the dataset
NextLoad ==
    /\ loaded # NoLoad
    /\ loaded' = NoLoad
    /\ UNCHANGED not_loaded_vars

NextDataset ==
    \/ load_dataset
    \/ NextLoad

SpecDataset == Init /\ [][NextDataset]_vars

\* --------------------------------------------------------- get_auth_headers
\* the module defaults AP_API_KEY_ID and AP_SECRET_KEY, read from the
\* environment when the module is imported
ModuleDefaults ==
    [ AP_API_KEY_ID : {"MISSING_AP_API_KEY_ID", "id0"},
      AP_SECRET_KEY : {"MISSING_AP_SECRET_KEY", "sk0"} ]

\* the arguments: "default" is an argument that is not passed, "None" the
\* default of the env_ arguments
AuthArgs ==
    [ use_api_key_id : {"default", "id1"},
      use_secret_key : {"default", "sk1"},
      env_api_key_id : {"None", "MY_ID"},
      env_secret_key : {"None", "MY_SK"} ]

\* os.environ: the variables the env_ arguments name, "unset" when absent
Environs == [MY_ID : {"unset", "id2"}, MY_SK : {"unset", "sk2"}]

\* os.getenv(name, default)
getenv(environ, name, default) ==
    IF environ[name] = "unset" THEN default ELSE environ[name]

\* lines 148-157: the keys come from the module defaults or from the
\* environment variable an env_ argument names
GetAuthHeaders(module, args, environ) ==
    LET api_key_id ==
            IF args.env_api_key_id = "None" THEN module.AP_API_KEY_ID
            ELSE getenv(environ, args.env_api_key_id, module.AP_API_KEY_ID)
        secret_key ==
            IF args.env_secret_key = "None" THEN module.AP_SECRET_KEY
            ELSE getenv(environ, args.env_secret_key, module.AP_SECRET_KEY)
    IN [h \in {"Accept", "APA-API-KEY-ID", "APA-API-SECRET-KEY"} |->
            CASE h = "Accept" -> "application/json"
              [] h = "APA-API-KEY-ID" -> api_key_id
              [] h = "APA-API-SECRET-KEY" -> secret_key]

get_auth_headers ==
    /\ auth = NoAuth
    /\ \E module \in ModuleDefaults, args \in AuthArgs, environ \in Environs :
        auth' =
            [ kind |-> "return",
              module |-> module,
              args |-> args,
              environ |-> environ,
              headers |-> GetAuthHeaders(module, args, environ) ]
    /\ UNCHANGED not_auth_vars

\* the caller has the headers
NextAuth ==
    /\ auth # NoAuth
    /\ auth' = NoAuth
    /\ UNCHANGED not_auth_vars

NextHeaders ==
    \/ get_auth_headers
    \/ NextAuth

SpecHeaders == Init /\ [][NextHeaders]_vars

\* ------------------------------------------------------ the yahoo extractors
\* the four extractors and the work_dict key each falls back to for its
\* redis key
Extractors ==
    { "extract_pricing_dataset", "extract_yahoo_news_dataset",
      "extract_option_calls_dataset", "extract_option_puts_dataset" }

DatasetKey(extractor) ==
    CASE extractor = "extract_pricing_dataset" -> "pricing"
      [] extractor = "extract_yahoo_news_dataset" -> "news"
      [] extractor = "extract_option_calls_dataset" -> "calls"
      [] extractor = "extract_option_puts_dataset" -> "puts"

\* the work_dict of an extractor call: with or without redis_key, with or
\* without the key of the dataset
ExtractWorkDicts(extractor) ==
    {[k \in ks |-> IF k = "redis_key" THEN "k" ELSE "d"] :
        ks \in SUBSET {"redis_key", DatasetKey(extractor)}}

\* redis_key = work_dict.get('redis_key', work_dict.get(..., 'missing-...'))
ExtractRedisKey(extractor, work_dict_) ==
    IF "redis_key" \in DOMAIN work_dict_ THEN work_dict_["redis_key"]
    ELSE IF DatasetKey(extractor) \in DOMAIN work_dict_
    THEN work_dict_[DatasetKey(extractor)]
    ELSE "missing-redis-key"

\* what get_data_from_redis_key does: it raises, or it returns a record
\* with a status and, with SUCCESS, data that is None, that converts to a
\* frame, or that does not
RedisLookups ==
    {[raises |-> TRUE, status |-> NOT_RUN, data |-> "None"]}
        \cup {[raises |-> FALSE, status |-> SUCCESS, data |-> d] :
                d \in {"None", "records", "unparseable"}}
        \cup {[raises |-> FALSE, status |-> s, data |-> "None"] :
                s \in {EMPTY, ERR, NOT_RUN}}

\* what a call of an extractor ends with
Extracted(status, df) ==
    [kind |-> "return", status |-> status, df |-> df]
ExtractRaises == [kind |-> "raise", status |-> NOT_RUN, df |-> "None"]

\* the try block: the lookup and the conversion of its data to a frame;
\* "go on" leaves the try with df set
ExtractTry(extractor, lookup) ==
    IF lookup.raises THEN Extracted(ERR, "None")
    ELSE IF lookup.status = SUCCESS
    THEN IF lookup.data = "None"
            /\ extractor \in {"extract_option_calls_dataset",
                              "extract_option_puts_dataset"}
         THEN Extracted(ERR, "None")
         ELSE IF lookup.data = "unparseable" THEN Extracted(EMPTY, "None")
         ELSE [kind |-> "go on", status |-> lookup.status,
               df |-> IF lookup.data = "None" THEN "empty" ELSE "df"]
    ELSE [kind |-> "go on", status |-> lookup.status, df |-> "None"]

\* the whole extractor: after the try the frame is scrubbed and the status
\* is set to SUCCESS
ExtractDataset(extractor, lookup, scrub) ==
    LET t == ExtractTry(extractor, lookup)
    IN IF t.kind = "return" THEN t
       ELSE IF scrub = "raises" THEN ExtractRaises
       ELSE Extracted(SUCCESS, IF t.df = "None" THEN "None" ELSE "scrubbed")

extract_dataset ==
    /\ extracted = NoExtract
    /\ \E extractor \in Extractors, lookup \in RedisLookups,
          scrub \in {"ok", "raises"} :
        \E wd \in ExtractWorkDicts(extractor) :
            LET r == ExtractDataset(extractor, lookup, scrub)
            IN extracted' =
                [ kind |-> r.kind,
                  extractor |-> extractor,
                  work_dict |-> wd,
                  redis_key |-> ExtractRedisKey(extractor, wd),
                  lookup |-> lookup,
                  scrub |-> scrub,
                  status |-> r.status,
                  df |-> r.df ]
    /\ UNCHANGED not_extracted_vars

\* the caller has the status and the frame
NextExtract ==
    /\ extracted # NoExtract
    /\ extracted' = NoExtract
    /\ UNCHANGED not_extracted_vars

NextExtractors ==
    \/ extract_dataset
    \/ NextExtract

SpecExtractors == Init /\ [][NextExtractors]_vars

\* ------------------------------------------- fetch_data, strikes of two dtypes
\* a frame's strike column is int64 when every strike of the batch is whole
\* and float64 otherwise; to_json writes 1 for the first and 1.0 for the
\* second, and json.loads reads them back as an int and as a float
StrikeDtypes ==
    [ int64 |-> {IntV(1), IntV(2)},
      float64 |-> {FloatV(1, "0"), FloatV(1, "5")} ]

MaxKeyRows == 2

KeyRows(dtype) ==
    {[c \in {"created", "strike", "date", "symbol"} |->
        CASE c = "created" -> created
          [] c = "strike" -> strike
          [] c = "date" -> IntV(1)
          [] c = "symbol" -> symbol] :
        created \in CellDom("created"),
        strike \in StrikeDtypes[dtype],
        symbol \in CellDom("symbol")}

KeyFrames ==
    UNION {{[none |-> FALSE,
             columns |-> {"created", "strike", "date", "symbol"},
             rows |-> rs] :
                rs \in SeqsUpTo(KeyRows(dtype), MaxKeyRows) \ {<< >>}} :
           dtype \in DOMAIN StrikeDtypes}

ProviderAnswersKeys ==
    {[status |-> SUCCESS, df |-> f] : f \in KeyFrames}
        \cup {[status |-> EMPTY, df |-> NoneDF]}

ExtractAnswersKeys(fetch) ==
    {[called |-> fetch.status = SUCCESS, status |-> SUCCESS, df |-> f] :
        f \in KeyFrames}
        \cup {[called |-> fetch.status = SUCCESS, status |-> EMPTY,
                df |-> NoneDF]}

fetch_data_calls_keys ==
    /\ pc = "idle"
    /\ Request("calls")
    /\ \E f \in ProviderAnswersKeys :
        \E e \in ExtractAnswersKeys(f) : CallsStep(f, e)
    /\ pc' = "done"
    /\ UNCHANGED not_fd_vars

fetch_data_puts_keys ==
    /\ pc = "idle"
    /\ Request("puts")
    /\ \E f \in ProviderAnswersKeys :
        \E e \in ExtractAnswersKeys(f) : PutsStep(f, e)
    /\ pc' = "done"
    /\ UNCHANGED not_fd_vars

NextKeys ==
    \/ fetch_data_calls_keys
    \/ fetch_data_puts_keys
    \/ fetch_data_unsupported
    \/ NextCall

SpecKeys == Init /\ [][NextKeys]_vars

\* ------------------------------------------------------ get_data_from_yahoo
\* the work_dict of a yahoo request: any of the keys the function reads;
\* the three get_ flags are False when they are given
YahooWorkDicts ==
    {[k \in ks |->
        IF k \in {"get_pricing", "get_news", "get_options"} THEN "False"
        ELSE k] :
        ks \in SUBSET {"ticker", "exp_date", "redis_key", "s3_key",
                       "get_pricing", "get_news", "get_options"}}

\* lines 49-59: rec, every field None
YahooRec ==
    [f \in {"pricing", "options", "calls", "puts", "news", "exp_date",
             "publish_pricing_update", "date", "updated"} |-> "None"]

\* the result, what the function logged as an error, and the collaborators
\* it called
YahooEnd(status, err, rec, log, calls) ==
    [ res |-> [status |-> status, err |-> err, rec |-> rec],
      log |-> log,
      calls |-> calls ]

\* work_dict.get(flag, True)
YahooFlag(work_dict_, flag) == flag \notin DOMAIN work_dict_

\* mutant: the function without its early return, which goes on with lines
\* 71-349: ticker_results is None, so asking for pricing or news raises and
\* gives ERR; otherwise the options are fetched when asked for, the five
\* fields are published and the status is SUCCESS
GetDataFromYahooGoesOn(work_dict_) ==
    IF YahooFlag(work_dict_, "get_pricing") \/ YahooFlag(work_dict_, "get_news")
    THEN YahooEnd(ERR, "failed - get_data_from_yahoo", YahooRec,
                  << "failed - get_data_from_yahoo" >>, << >>)
    ELSE LET fetched == YahooFlag(work_dict_, "get_options")
             rec == [f \in DOMAIN YahooRec |->
                        IF fetched /\ f \in {"options", "calls", "puts"}
                        THEN f ELSE "None"]
             publishes == [i \in 1..5 |-> "run_publish_pricing_update"]
         IN YahooEnd(SUCCESS, "None", rec, << >>,
                     IF fetched THEN << "get_options" >> \o publishes
                     ELSE publishes)

\* lines 36-69: rec and res are built, the function logs that yahoo is
\* disabled and returns res; nothing after the return is run
GetDataFromYahoo(work_dict_) ==
    YahooEnd(NOT_RUN, "None", YahooRec, << "sorry - yahoo is disabled" >>,
             << >>)

get_data_from_yahoo ==
    /\ yahoo = NoYahoo
    /\ \E wd \in YahooWorkDicts :
        LET y == GetDataFromYahoo(wd)
        IN yahoo' =
            [ kind |-> "return",
              work_dict |-> wd,
              res |-> y.res,
              log |-> y.log,
              calls |-> y.calls ]
    /\ UNCHANGED not_yahoo_vars

\* the caller has the result
NextYahoo ==
    /\ yahoo # NoYahoo
    /\ yahoo' = NoYahoo
    /\ UNCHANGED not_yahoo_vars

NextYahooData ==
    \/ get_data_from_yahoo
    \/ NextYahoo

SpecYahoo == Init /\ [][NextYahooData]_vars

\* =================================================================== claims
\* vocabulary of the claims: base is the cached frame, incoming the fetched
\* one, the output is the frame fetch_data returns
Base == ext_df.rows
Incoming == fetch_df.rows
Out == result.df.rows

AllowList == Range(AP_OPTION_COLUMNS)

Supported ==
    LET ft == EffectiveFetchType(work_dict, fetch_type)
    IN pc = "done" /\ (IsCallsBranch(ft) \/ IsPutsBranch(ft))

\* the call went into the merge of a non-empty base with the fetched rows
MergeRan ==
    /\ Supported
    /\ fetch_status = SUCCESS
    /\ ext_called /\ ext_status = SUCCESS /\ Len(Base) > 0

\* ... and returned the merged frame
MergeReturned == MergeRan /\ result.kind = "return" /\ result.status = SUCCESS

HasKey(r) == {"created", "strike"} \subseteq DOMAIN r

SameKey(r1, r2) ==
    r1["created"] = r2["created"] /\ r1["strike"] = r2["strike"]

KeysOf(rows) ==
    {<< rows[i]["created"], rows[i]["strike"] >> :
        i \in {n \in DOMAIN rows : HasKey(rows[n])}}

\* the first row of base with the key of r
FirstBase(r) ==
    Base[CHOOSE i \in DOMAIN Base :
            /\ SameKey(Base[i], r)
            /\ \A n \in 1..(i - 1) : ~SameKey(Base[n], r)]

\* row o of the output frame carries the option columns of source row src:
\* the same value where src has the column, a missing cell where it has not
Carries(o, src) ==
    /\ \A c \in DOMAIN o : c \in DOMAIN src => o[c] = src[c]
    /\ \A c \in DOMAIN o : c \notin DOMAIN src => o[c] = NaN
    /\ \A c \in DOMAIN src \cap AllowList : c \in DOMAIN o

C3_AddsOnly ==
    MergeReturned => KeysOf(Out) = KeysOf(Base) \cup KeysOf(Incoming)

\* incoming brings a key base does not have, next to one base has
C3_Witness ==
    /\ MergeReturned
    /\ KeysOf(Incoming) \ KeysOf(Base) # {}
    /\ KeysOf(Incoming) \cap KeysOf(Base) # {}

\* (a.date, a.strike) <= (b.date, b.strike) on two rows of a frame
DateStrikeLE(a, b) ==
    \/ a["date"].n < b["date"].n
    \/ a["date"].n = b["date"].n /\ a["strike"].n <= b["strike"].n

NoMissingSortCell(rows) ==
    \A k \in DOMAIN rows : rows[k]["date"] # NaN /\ rows[k]["strike"] # NaN

\* C4 (sort correctness), as claimed: the frame returned after the merge is
\* ascending by (date, strike) on every adjacent pair of rows.
C4_SortedOutput ==
    (MergeReturned /\ NoMissingSortCell(Out)) =>
        \A k \in 1..(Len(Out) - 1) : DateStrikeLE(Out[k], Out[k + 1])

IncomingMalformed == \E j \in DOMAIN Incoming : ~HasKey(Incoming[j])

BaseWellFormed == \A i \in DOMAIN Base : HasKey(Base[i])

\* C6 (fatal on malformed), as claimed: when a fetched row lacks strike or
\* created, fetch_data returns status ERR and no output rows.
C6_FatalOnMalformed ==
    (MergeRan /\ BaseWellFormed /\ IncomingMalformed) =>
        /\ result.kind = "return"
        /\ result.status = ERR
        /\ Len(Out) = 0

\* C7 (no exception crosses), as claimed: for a supported fetch type every
\* call ends by returning a status, never by raising.
C7_NoExceptionCrosses == Supported => result.kind = "return"

\* the fetched rows from position j on whose key neither base nor an earlier
\* fetched row has
UnseenAfter(j) ==
    {n \in DOMAIN Incoming :
        /\ n > j
        /\ HasKey(Incoming[n])
        /\ \A i \in DOMAIN Base : ~SameKey(Base[i], Incoming[n])
        /\ \A n2 \in 1..(n - 1) : ~SameKey(Incoming[n2], Incoming[n])}

\* fetched row j has a key that base or an earlier fetched row has
IsConflict(j) ==
    /\ HasKey(Incoming[j])
    /\ \/ \E i \in DOMAIN Base : SameKey(Base[i], Incoming[j])
       \/ \E n \in 1..(j - 1) : SameKey(Incoming[n], Incoming[j])

\* C8 (a duplicate is not fatal), as claimed: when a fetched row's key
\* already exists the call still ends with status SUCCESS, no output row
\* carries the dropped row in place of the row that was there, and every
\* later fetched row with an unseen key is in the output.
C8_DuplicateNonFatal ==
    (MergeRan /\ BaseWellFormed /\ ~IncomingMalformed
        /\ \E j \in DOMAIN Incoming : IsConflict(j)) =>
        /\ result.kind = "return"
        /\ result.status = SUCCESS
        /\ \A j \in DOMAIN Incoming :
            IsConflict(j) =>
                \A n \in UnseenAfter(j) :
                    \E k \in DOMAIN Out : Carries(Out[k], Incoming[n])
        /\ Cardinality(KeysOf(Out)) = Len(Out)

\* the option columns of a source row, as a frame row over columns cols
Projected(src, cols) ==
    [c \in cols |-> IF c \in DOMAIN src THEN src[c] ELSE NaN]

\* rows is the rows of base, restricted to the option columns, in ascending
\* (date, strike) order: same length, every base row the same number of times
IsBaseSorted(rows, cols) ==
    /\ Len(rows) = Len(Base)
    /\ \A i \in DOMAIN Base :
        Cardinality({k \in DOMAIN rows : rows[k] = Projected(Base[i], cols)})
            = Cardinality({n \in DOMAIN Base :
                    Projected(Base[n], cols) = Projected(Base[i], cols)})
    /\ \A k \in 1..(Len(rows) - 1) : DateStrikeLE(rows[k], rows[k + 1])

\* base is a full frame that holds no key twice
BaseFullAndDeduplicated ==
    /\ {"created", "strike", "date"} \subseteq ext_df.columns
    /\ \A i1, i2 \in DOMAIN Base : i1 # i2 => ~SameKey(Base[i1], Base[i2])

\* the branch of the call, applied to the same fetch with frame df as cache
Again(df) ==
    IF IsCallsBranch(EffectiveFetchType(work_dict, fetch_type))
    THEN CallsBranch(fetch_status, fetch_df, SUCCESS, df)
    ELSE PutsBranch(fetch_status, fetch_df, SUCCESS, df)

\* C9 (idempotence), as claimed: with incoming identical to base the call
\* returns the rows of base in sorted order, and reconciling that result
\* with the same incoming again returns the same frame.
C9_Idempotence ==
    (MergeRan /\ fetch_df = ext_df /\ BaseFullAndDeduplicated) =>
        /\ result.kind = "return"
        /\ result.status = SUCCESS
        /\ IsBaseSorted(Out, result.df.columns)
        /\ Again(result.df) = result

\* the provider fetch did not return SUCCESS and the cache holds rows
FetchFailedBaseNonEmpty ==
    /\ Supported
    /\ fetch_status # SUCCESS
    /\ ext_status = SUCCESS /\ Len(Base) > 0

\* C10 (fallback to base), as claimed: when the provider fetch does not
\* return SUCCESS and the cached base is not empty, fetch_data returns the
\* rows of base, sorted, with status SUCCESS.
C10_FallbackToBase ==
    (FetchFailedBaseNonEmpty /\ BaseFullAndDeduplicated) =>
        /\ result.kind = "return"
        /\ result.status = SUCCESS
        /\ IsBaseSorted(Out, ext_df.columns)

\* C10 as amended: when the provider fetch does not return SUCCESS,
\* fetch_data does not call the cache extract and returns the provider's
\* status with the placeholder frame (one row, no column), whatever the
\* cache holds: no row of base is returned and the status is not SUCCESS.
C10_NoFallback ==
    (Supported /\ fetch_status # SUCCESS) =>
        /\ ~ext_called
        /\ result.kind = "return"
        /\ result.status = fetch_status
        /\ result.df.columns = {}
        /\ Len(Out) = 1

\* the fetch failed while the cache holds a well-formed batch
C10_Witness ==
    /\ FetchFailedBaseNonEmpty
    /\ BaseFullAndDeduplicated
    /\ fetch_status = ERR
    /\ result.status = ERR

\* the provider fetch of a supported call did not return SUCCESS
ProviderFailed == Supported /\ fetch_status # SUCCESS

\* C11 (provider failure), as claimed: when the remote fetch does not return
\* SUCCESS, fetch_data returns, without raising, the status EMPTY or ERR
\* together with a result of zero rows.
C11_ProviderFailure ==
    ProviderFailed =>
        /\ result.kind = "return"
        /\ result.status \in {EMPTY, ERR}
        /\ Len(Out) = 0

\* the cache extract was called after a successful fetch and the store erred
CacheFailed ==
    /\ Supported
    /\ fetch_status = SUCCESS
    /\ ext_called /\ ext_status = ERR

\* C12 (cache failure is surfaced), as claimed: when loading the persisted
\* batch fails, fetch_data returns the status ERR and not SUCCESS.
C12_CacheFailureSurfaced ==
    CacheFailed => (result.kind = "return" /\ result.status = ERR)

\* the fetch type of the call as the claim words it: the fetch_type argument
\* when one is given, work_dict['ft_type'] otherwise
GivenFetchType ==
    IF fetch_type # NoneV THEN fetch_type
    ELSE IF "ft_type" \in DOMAIN work_dict THEN work_dict["ft_type"]
    ELSE NoneV

\* ft is the enum, or its name in any letter case
Names(ft, enum, name) ==
    \/ ft = IntV(enum)
    \/ ft.t = "str" /\ Lower(ft.s) = name

\* C13 (fetcher selection): a call uses fetch_calls exactly when the fetch
\* type is FETCH_AP_CALLS or 'apcalls' in any letter case, and fetch_puts
\* exactly when it is FETCH_AP_PUTS or 'apputs'; the fetch type is the
\* fetch_type argument when given, and work_dict['ft_type'] only otherwise.
C13_FetcherSelection ==
    pc = "done" =>
        /\ fetcher = "fetch_calls" <=>
            Names(GivenFetchType, FETCH_AP_CALLS,
                  << "a", "p", "c", "a", "l", "l", "s" >>)
        /\ fetcher = "fetch_puts" <=>
            Names(GivenFetchType, FETCH_AP_PUTS,
                  << "a", "p", "p", "u", "t", "s" >>)

\* a mixed-case 'ApCalls' argument wins over work_dict['ft_type'] = puts
C13_Witness ==
    /\ pc = "done"
    /\ fetch_type = StrV(<< "A", "p", "C", "a", "l", "l", "s" >>)
    /\ "ft_type" \in DOMAIN work_dict
    /\ work_dict["ft_type"] = IntV(FETCH_AP_PUTS)
    /\ fetcher = "fetch_calls"

\* both calls of the pair handed a dict to the cache extract
BothRead ==
    /\ two_calls # NoTwoCalls
    /\ ~two_calls.calls.raises
    /\ ~two_calls.puts.raises

\* the cache key each of the two calls reads
CallsKey == two_calls.calls.dict["redis_key"]
PutsKey == two_calls.puts.dict["redis_key"]

\* C20 (isolation of concurrent reconciliations), as claimed: for every
\* work_dict the cache key the calls reconciliation reads differs from the
\* cache key the puts reconciliation started from the same work_dict reads.
C20_KeysDiffer == BothRead => CallsKey # PutsKey

\* the caller names no cache key of its own for the calls or the puts
NoOverride == DOMAIN two_calls.work_dict \cap {"apcalls", "apputs"} = {}

\* C20 as amended: the calls read work_dict['apcalls'] when the caller gives
\* it and '<redis_key>_apcalls' otherwise, the puts work_dict['apputs'] or
\* '<redis_key>_apputs'; the two keys differ for every work_dict that gives
\* neither 'apcalls' nor 'apputs'.
C20_DerivedKeysDiffer ==
    BothRead =>
        /\ NoOverride => CallsKey # PutsKey
        /\ CallsKey =
            IF "apcalls" \in DOMAIN two_calls.work_dict
            THEN two_calls.work_dict["apcalls"]
            ELSE StrV(two_calls.work_dict["redis_key"].s
                        \o << "_", "a", "p", "c", "a", "l", "l", "s" >>)
        /\ PutsKey =
            IF "apputs" \in DOMAIN two_calls.work_dict
            THEN two_calls.work_dict["apputs"]
            ELSE StrV(two_calls.work_dict["redis_key"].s
                        \o << "_", "a", "p", "p", "u", "t", "s" >>)

\* both calls derived their key from redis_key
C20_Witness ==
    /\ BothRead
    /\ NoOverride
    /\ CallsKey = StrV(<< "k", "_", "a", "p", "c", "a", "l", "l", "s" >>)
    /\ PutsKey = StrV(<< "k", "_", "a", "p", "p", "u", "t", "s" >>)

\* an exception was raised while the task created, ran or published the
\* algorithm
RaisedInTry == task # NoTask /\ task.e \notin {"None", "exec_module"}

\* the task logged the error of the exception
ErrorLogged ==
    \E i \in DOMAIN task.log :
        task.log[i] = "failed - run_distributed_algorithm"

\* C14 (raise-on-error is opt-in and logged), as claimed: an exception
\* raised while creating, running or publishing the algorithm becomes a
\* returned result with status ERR, except when the caller has set
\* raise_on_err: then the error is logged and the exception is re-raised.
C14_RaiseOnErrOptIn ==
    RaisedInTry =>
        IF task.algo_req.raise_on_err = "True"
        THEN task.kind = "raise" /\ ErrorLogged
        ELSE task.kind = "return" /\ task.task_result.status = ERR

\* C14 as amended: the exception is re-raised, and not logged by the task,
\* unless the caller has set raise_on_err to a false value (it is True when
\* algo_req does not hold it); only then is the error logged and the task
\* returns a result with status ERR.
C14_RaiseOnErrOptOut ==
    RaisedInTry =>
        IF task.algo_req.raise_on_err = "False"
        THEN /\ task.kind = "return"
             /\ task.task_result.status = ERR
             /\ ErrorLogged
        ELSE task.kind = "raise" /\ ~ErrorLogged

\* run_algo raised in a task whose algo_req holds no raise_on_err
C14_Witness ==
    /\ RaisedInTry
    /\ task.e = "run_algo"
    /\ task.algo_req.raise_on_err = "absent"
    /\ task.kind = "raise"

\* a source key is set: neither None nor the empty string
KeyIsSet(k) == k # NoneV /\ k # StrV(<< >>)

\* the call is for the supported dataset type
SupportedLoad ==
    /\ loaded # NoLoad
    /\ loaded.args.dataset_type = SA_DATASET_TYPE_ALGO_READY

\* the caller passed a dataset that is already loaded
AlreadyLoaded == loaded.args.algo_dataset = "algo_dataset"

\* the loader of the first source that is set, file before s3 before redis
FirstSource ==
    IF KeyIsSet(loaded.args.path_to_file) THEN "load_algo_dataset_from_file"
    ELSE IF KeyIsSet(loaded.args.s3_key) THEN "load_algo_dataset_from_s3"
    ELSE IF KeyIsSet(loaded.args.redis_key)
    THEN "load_algo_dataset_from_redis"
    ELSE "none"

\* C15 (load_dataset source selection): for the supported dataset type an
\* already loaded algo_dataset is returned as is and no loader is invoked;
\* otherwise the one loader of the first source that is set (file, then s3,
\* then redis) is invoked and what it returns is returned, also when it
\* returns nothing; with no source set no loader is invoked.
C15_SourceSelection ==
    SupportedLoad =>
        IF AlreadyLoaded
        THEN loaded.invoked = << >> /\ loaded.use_ds = "algo_dataset"
        ELSE IF FirstSource = "none"
        THEN loaded.invoked = << >> /\ loaded.use_ds = loaded.args.algo_dataset
        ELSE /\ loaded.invoked = << FirstSource >>
             /\ loaded.use_ds = loaded.answers[FirstSource]

\* the file loader returned nothing while s3 and redis hold the dataset
C15_Witness ==
    /\ SupportedLoad
    /\ ~AlreadyLoaded
    /\ KeyIsSet(loaded.args.path_to_file)
    /\ KeyIsSet(loaded.args.s3_key)
    /\ KeyIsSet(loaded.args.redis_key)
    /\ loaded.answers.load_algo_dataset_from_file = "None"
    /\ loaded.answers.load_algo_dataset_from_s3 = "s3"
    /\ loaded.invoked = << "load_algo_dataset_from_file" >>
    /\ loaded.use_ds = "None"

\* the caller passed both use_api_key_id and use_secret_key
OverridesPassed ==
    /\ auth # NoAuth
    /\ auth.args.use_api_key_id # "default"
    /\ auth.args.use_secret_key # "default"

\* C16 (get_auth_headers honours its overrides), as claimed: the headers
\* always have exactly the keys Accept, APA-API-KEY-ID and
\* APA-API-SECRET-KEY, and when use_api_key_id and use_secret_key are passed
\* the headers carry those values and not the module defaults.
C16_HonoursOverrides ==
    auth # NoAuth =>
        /\ DOMAIN auth.headers =
            {"Accept", "APA-API-KEY-ID", "APA-API-SECRET-KEY"}
        /\ OverridesPassed =>
            /\ auth.headers["APA-API-KEY-ID"] = auth.args.use_api_key_id
            /\ auth.headers["APA-API-SECRET-KEY"] = auth.args.use_secret_key

\* what the branch the call did not take returns for the same provider
\* answer and the same cache answer
OtherBranch ==
    IF fetcher = "fetch_calls"
    THEN PutsBranch(fetch_status, fetch_df, ext_status, ext_df)
    ELSE CallsBranch(fetch_status, fetch_df, ext_status, ext_df)

\* C17 (calls/puts equivalence): given the same fetched rows, the same
\* cached rows and the same fetch and extract statuses, the calls branch and
\* the puts branch end the same way: the same status and the same rows.
C17_CallsPutsEquivalence ==
    (Supported /\ (fetch_status = SUCCESS => ext_called)) =>
        result = OtherBranch

\* a puts call merged a cached row with a fetched row of another key
C17_Witness ==
    /\ MergeReturned
    /\ fetcher = "fetch_puts"
    /\ Len(Base) = 1 /\ Len(Incoming) = 1
    /\ Len(Out) = 2

\* two rows tie on (quote date, strike)
Tie(r1, r2) == r1["date"] = r2["date"] /\ r1["strike"] = r2["strike"]

\* the rows handed to the merge in input order: base, then incoming
InputRows == Base \o Incoming

\* the place in the input of the row that output row k was taken from: the
\* first input row with its key
Origin(k) ==
    CHOOSE i \in DOMAIN InputRows :
        /\ HasKey(InputRows[i]) /\ SameKey(InputRows[i], Out[k])
        /\ \A n \in 1..(i - 1) :
            ~(HasKey(InputRows[n]) /\ SameKey(InputRows[n], Out[k]))

\* the call found no base to merge with and returned the fetched rows
FetchedAloneReturned ==
    /\ Supported
    /\ fetch_status = SUCCESS
    /\ ext_called /\ ~(ext_status = SUCCESS /\ Len(Base) > 0)
    /\ result.kind = "return"

\* the rows of a batch that tie with row r, in the order of the batch
TiesWith(rows, r) ==
    LET IsTie(x) == Tie(x, r) IN SelectSeq(rows, IsTie)

\* C18 (output order on ties): rows of the output with equal (quote date,
\* strike) appear in input order, rows taken from base before rows taken
\* from incoming, and the rows of one batch in the order of that batch.
C18_TiesInInputOrder ==
    /\ MergeReturned =>
        \A k1, k2 \in DOMAIN Out :
            (k1 < k2 /\ Tie(Out[k1], Out[k2])) => Origin(k1) < Origin(k2)
    /\ FetchedAloneReturned =>
        \A k \in DOMAIN Out :
            TiesWith(Out, Out[k]) = TiesWith(Incoming, Out[k])

\* a base row and an incoming row of another key tie on (date, strike) and
\* come out in that order
C18_Witness ==
    /\ MergeReturned
    /\ fetcher = "fetch_calls"
    /\ Len(Base) = 1 /\ Len(Incoming) = 1 /\ Len(Out) = 2
    /\ Tie(Out[1], Out[2])
    /\ Out[1]["created"] = Base[1]["created"]
    /\ Out[2]["created"] = Incoming[1]["created"]

\* an extractor call that returned
ExtractReturned == extracted # NoExtract /\ extracted.kind = "return"

\* the cache lookup returned, without raising, the status s
LookupAnswered(s) ==
    /\ extracted # NoExtract
    /\ ~extracted.lookup.raises
    /\ extracted.lookup.status = s

\* C19 (cache-status reporting by the extractors), as claimed: an extractor
\* returns SUCCESS only when the cache lookup itself returned SUCCESS, and a
\* lookup that reports not-found (EMPTY) or an error status (ERR) without
\* raising is returned as a status other than SUCCESS, not-found as a status
\* that is not the one of an error.
C19_CacheStatusReported ==
    /\ (ExtractReturned /\ extracted.status = SUCCESS) => LookupAnswered(SUCCESS)
    /\ (ExtractReturned /\ LookupAnswered(EMPTY)) =>
            extracted.status \notin {SUCCESS, ERR}
    /\ (ExtractReturned /\ LookupAnswered(ERR)) =>
            extracted.status \notin {SUCCESS, EMPTY}

\* the fetch type of the call names neither the calls nor the puts
NamesNoFetcher ==
    /\ pc = "done"
    /\ ~Names(GivenFetchType, FETCH_AP_CALLS,
              << "a", "p", "c", "a", "l", "l", "s" >>)
    /\ ~Names(GivenFetchType, FETCH_AP_PUTS,
              << "a", "p", "p", "u", "t", "s" >>)

\* C21 (unsupported fetch type): when the fetch type is neither calls nor
\* puts, also when neither fetch_type nor work_dict['ft_type'] is given,
\* fetch_data raises NotImplementedError and calls neither the provider
\* fetch nor the cache extract.
C21_UnsupportedFetchType ==
    NamesNoFetcher =>
        /\ result.kind = "raise"
        /\ result.exc = "NotImplementedError"
        /\ fetcher = "none"
        /\ ~ext_called
        /\ work_copy = << >>

\* neither the argument nor work_dict['ft_type'] is given
C21_Witness ==
    /\ NamesNoFetcher
    /\ fetch_type = NoneV
    /\ "ft_type" \notin DOMAIN work_dict
    /\ result.exc = "NotImplementedError"

\* C22 (yahoo fetching is disabled): for every work_dict get_data_from_yahoo
\* returns a result with status NOT_RUN, err None and a rec whose fields are
\* all None, and calls neither the options fetcher nor the publisher of
\* pricing updates.
C22_YahooDisabled ==
    yahoo # NoYahoo =>
        /\ yahoo.kind = "return"
        /\ yahoo.res.status = NOT_RUN
        /\ yahoo.res.err = "None"
        /\ \A f \in DOMAIN yahoo.res.rec : yahoo.res.rec[f] = "None"
        /\ \A i \in DOMAIN yahoo.calls :
            yahoo.calls[i] \notin {"get_options", "run_publish_pricing_update"}

\* a request that turns pricing and news off and leaves the options on
C22_Witness ==
    /\ yahoo # NoYahoo
    /\ {"get_pricing", "get_news", "redis_key"} \subseteq DOMAIN yahoo.work_dict
    /\ "get_options" \notin DOMAIN yahoo.work_dict
    /\ yahoo.res.status = NOT_RUN

\* the datasets in the order of the task's code, with the flag of algo_req
\* that asks for each
PublishNames ==
    << "publish_input_dataset", "publish_trade_history_dataset",
       "publish_report_dataset" >>

PublishFlags == << "publish_extract", "publish_history", "publish_report" >>

\* the places of a call in the task's calls
PlacesOf(name) == {i \in DOMAIN task.calls : task.calls[i] = name}

\* the task came to an end (it returned or it raised)
TaskEnded == task # NoTask

TaskReturned == task # NoTask /\ task.kind = "return"

\* C23 (publish ordering): a dataset is published only after run_algo has
\* returned; the datasets are published in the order extract, trade history,
\* report; the first publish that returns a status other than SUCCESS ends
\* the task with status ERR and nothing is published after it.
C23_PublishOrdering ==
    TaskEnded =>
        \A k \in 1..3 : \A i \in PlacesOf(PublishNames[k]) :
            /\ task.world.run_algo = "ok"
            /\ \E j \in PlacesOf("run_algo") : j < i
            /\ \A l \in 1..3 : \A j \in PlacesOf(PublishNames[l]) :
                (l < k => j < i) /\ (l = k => j = i)
            /\ task.world[PublishNames[k]] = ERR =>
                /\ task.kind = "return"
                /\ task.task_result.status = ERR
                /\ i = Len(task.calls)

\* the extract is published, the trade history's publish returns ERR and
\* the report that was asked for is not published
C23_Witness ==
    /\ TaskReturned
    /\ task.algo_req.publish_extract
    /\ task.algo_req.publish_history
    /\ task.algo_req.publish_report
    /\ task.world.publish_input_dataset = SUCCESS
    /\ task.world.publish_trade_history_dataset = ERR
    /\ task.calls = << "create", "run_algo", "publish_input_dataset",
                       "publish_trade_history_dataset" >>
    /\ task.task_result.status = ERR

\* C24 (final status): a result the task returns has status SUCCESS or ERR,
\* never NOT_RUN; it is SUCCESS only if an algorithm object was created,
\* run_algo returned without raising and every publish that was asked for
\* returned SUCCESS.
C24_FinalStatus ==
    TaskReturned =>
        /\ task.task_result.status \in {SUCCESS, ERR}
        /\ task.task_result.status = SUCCESS =>
            /\ PlacesOf("create") # {}
            /\ task.world.create = "object"
            /\ PlacesOf("run_algo") # {}
            /\ task.world.run_algo = "ok"
            /\ \A k \in 1..3 :
                task.algo_req[PublishFlags[k]] =>
                    /\ PlacesOf(PublishNames[k]) # {}
                    /\ task.world[PublishNames[k]] = SUCCESS

\* a task that runs a custom algorithm, publishes the three datasets and
\* returns SUCCESS
C24_Witness ==
    /\ TaskReturned
    /\ task.algo_req.source = "custom_algo_module"
    /\ task.algo_req.publish_extract
    /\ task.algo_req.publish_history
    /\ task.algo_req.publish_report
    /\ task.task_result.status = SUCCESS
    /\ Len(task.calls) = 5

\* C25 (ERR results carry a reason): a returned result with status ERR has
\* an err that is an error message, never None, a failed dataset publish
\* included.
C25_ErrHasReason ==
    TaskReturned /\ task.task_result.status = ERR =>
        task.task_result.err # "None"

\* the rows the two loops of the merge walk: the cached ones, then the
\* fetched ones
MergeInput == ToJsonRecords(ext_df) \o ToJsonRecords(fetch_df)

\* two numbers are equal (1 == 1.0)
SameNumber(a, b) == a.n = b.n /\ Tenths(a) = Tenths(b)

\* two rows have the same (created, strike) pair
SamePair(r1, r2) ==
    r1["created"] = r2["created"] /\ SameNumber(r1["strike"], r2["strike"])

\* the pairs of the rows the merge walks
PairsOfInput ==
    {<< MergeInput[i]["created"], MergeInput[i]["strike"].n,
        Tenths(MergeInput[i]["strike"]) >> : i \in DOMAIN MergeInput}

\* C26 (identity is the ordered pair): the merge treats two rows as
\* duplicates, i.e. builds the same composite key for them, if and only if
\* they have the same created and the same strike; the merged list has one
\* row per pair.
C26_IdentityIsThePair ==
    MergeRan =>
        /\ \A i, j \in DOMAIN MergeInput :
            date_strike_name(MergeInput[i]) = date_strike_name(MergeInput[j])
                <=> SamePair(MergeInput[i], MergeInput[j])
        /\ Len(new_records) = Cardinality(PairsOfInput)

\* the keys fetch_data derives for the cache extract
DerivedKeys == {"ft_type", "fd_type", "redis_key", "s3_key"}

\* C27 as stated (the caller's request is not modified): when fetch_data has
\* ended, the caller's work_dict is what it was when the call began; no key
\* was added, removed or changed.
C27_WorkDictUnchanged ==
    pc = "done" => work_dict = work_dict_given

\* C27 amended: when fetch_data has ended, the caller's work_dict holds what
\* it held when the call began, and exp_date with the default expiration
\* date when the caller gave none; the derived keys are written to the copy,
\* which holds the caller's other entries as they are.
C27_OnlyExpDateAdded ==
    pc = "done" =>
        /\ DOMAIN work_dict = DOMAIN work_dict_given \cup {"exp_date"}
        /\ \A k \in DOMAIN work_dict_given : work_dict[k] = work_dict_given[k]
        /\ "exp_date" \notin DOMAIN work_dict_given =>
            work_dict["exp_date"] = DefaultExpDate
        /\ work_copy # << >> =>
            /\ DerivedKeys \subseteq DOMAIN work_copy
            /\ \A k \in DOMAIN work_dict \ DerivedKeys :
                work_copy[k] = work_dict[k]

\* a call without exp_date and without ft_type that built the copy for the
\* extract: the copy has the derived keys, the caller's dict got exp_date
C27_Witness ==
    /\ pc = "done"
    /\ "exp_date" \notin DOMAIN work_dict_given
    /\ "ft_type" \notin DOMAIN work_dict_given
    /\ "s3_key" \in DOMAIN work_dict_given
    /\ work_dict["exp_date"] = DefaultExpDate
    /\ work_copy # << >>
    /\ "ft_type" \in DOMAIN work_copy
    /\ "ft_type" \notin DOMAIN work_dict

====
